---------------------------- MODULE Spec2Model ----------------------------
(***************************************************************************)
(* A model of opn.py, the reader for the OPN-2001 barcode scanner: the     *)
(* CRC-16 engine, the timestamp codec, Frame.build, the frame parser of    *)
(* Frame and of its response subclasses, and the send/receive exchanges of *)
(* OpticonAPI over a byte stream.                                          *)
(*                                                                         *)
(* Bytes are naturals 0..255 and byte strings are sequences of bytes.      *)
(* TLC's integers are 32-bit signed, so the two unsigned values of the     *)
(* program that do not fit are carried as 16-bit words, most significant   *)
(* first: the '>I' timestamp as 2 words, the '>Q' device id as 4 words.    *)
(***************************************************************************)
EXTENDS Integers, Sequences, FiniteSets, TLC

VARIABLES
    stream,     \* the bytes the stream holds and the program has not read yet
    io,         \* the stream.write / stream.read calls of the current call, in order
    pc,         \* where the program is: "idle", a step of Frame.receive, "done", "error"
    cls,        \* the class of the frame being received
    raw,        \* Frame.raw: every byte read for this frame
    opcode,     \* Frame.opcode
    unk1,       \* Frame.unk1
    unk2,       \* Frame.unk2
    length,     \* Frame.length
    payload,    \* Frame.payload
    attrs,      \* the attributes the parse assigns (crc, deviceId, ...): name -> value
    err,        \* the exception that ended the call, "" when none
    request,    \* the frame that was built and written
    reply,      \* the bytes the peer put on the stream for this call
    calls,      \* number of calls made so far
    now,        \* the clock: seconds elapsed since the module was loaded
    sent        \* the requests set_time wrote when called without a date, in order

vars == <<stream, io, pc, cls, raw, opcode, unk1, unk2, length, payload, attrs,
          err, request, reply, calls, now, sent>>

(***************************************************************************)
(* Bounds of the model.                                                    *)
(***************************************************************************)
\* number of API calls in one behaviour
MaxExchanges == 2
\* number of barcode records in a generated GetData response
MaxRecords == 2
\* longest payload handed to Frame.build in the codec specification
MaxPayloadLen == 33
\* longest run of arbitrary bytes after the device id of a GetData response
MaxTail == 3
\* seconds the clock can advance after the module was loaded
MaxClock == 2
\* longest byte string over CrcAlphabet handed to calculate_crc on its own
MaxCrcLen == 3

Byte == 0..255

Min(a, b) == IF a < b THEN a ELSE b

\* s[:n]
Take(s, n) == SubSeq(s, 1, Min(n, Len(s)))
\* s[n:]
Drop(s, n) == SubSeq(s, Min(n, Len(s)) + 1, Len(s))

RECURSIVE Xor(_, _)
\* a ^ b on naturals
Xor(a, b) ==
    IF a = 0 THEN b
    ELSE IF b = 0 THEN a
    ELSE ((a + b) % 2) + 2 * Xor(a \div 2, b \div 2)

RECURSIVE Pow2(_)
Pow2(n) == IF n = 0 THEN 1 ELSE 2 * Pow2(n - 1)

(***************************************************************************)
(* CRC-16 engine.                                                          *)
(***************************************************************************)
crc_map == <<
    0, 49345, 49537, 320, 49921, 960, 640, 49729,
    50689, 1728, 1920, 51009, 1280, 50625, 50305, 1088,
    52225, 3264, 3456, 52545, 3840, 53185, 52865, 3648,
    2560, 51905, 52097, 2880, 51457, 2496, 2176, 51265,
    55297, 6336, 6528, 55617, 6912, 56257, 55937, 6720,
    7680, 57025, 57217, 8000, 56577, 7616, 7296, 56385,
    5120, 54465, 54657, 5440, 55041, 6080, 5760, 54849,
    53761, 4800, 4992, 54081, 4352, 53697, 53377, 4160,
    61441, 12480, 12672, 61761, 13056, 62401, 62081, 12864,
    13824, 63169, 63361, 14144, 62721, 13760, 13440, 62529,
    15360, 64705, 64897, 15680, 65281, 16320, 16000, 65089,
    64001, 15040, 15232, 64321, 14592, 63937, 63617, 14400,
    10240, 59585, 59777, 10560, 60161, 11200, 10880, 59969,
    60929, 11968, 12160, 61249, 11520, 60865, 60545, 11328,
    58369, 9408, 9600, 58689, 9984, 59329, 59009, 9792,
    8704, 58049, 58241, 9024, 57601, 8640, 8320, 57409,
    40961, 24768, 24960, 41281, 25344, 41921, 41601, 25152,
    26112, 42689, 42881, 26432, 42241, 26048, 25728, 42049,
    27648, 44225, 44417, 27968, 44801, 28608, 28288, 44609,
    43521, 27328, 27520, 43841, 26880, 43457, 43137, 26688,
    30720, 47297, 47489, 31040, 47873, 31680, 31360, 47681,
    48641, 32448, 32640, 48961, 32000, 48577, 48257, 31808,
    46081, 29888, 30080, 46401, 30464, 47041, 46721, 30272,
    29184, 45761, 45953, 29504, 45313, 29120, 28800, 45121,
    20480, 37057, 37249, 20800, 37633, 21440, 21120, 37441,
    38401, 22208, 22400, 38721, 21760, 38337, 38017, 21568,
    39937, 23744, 23936, 40257, 24320, 40897, 40577, 24128,
    23040, 39617, 39809, 23360, 39169, 22976, 22656, 38977,
    34817, 18624, 18816, 35137, 19200, 35777, 35457, 19008,
    19968, 36545, 36737, 20288, 36097, 19904, 19584, 35905,
    17408, 33985, 34177, 17728, 34561, 18368, 18048, 34369,
    33281, 17088, 17280, 33601, 16640, 33217, 32897, 16448
>>

\* one pass of the for loop of calculate_crc
crc_step(crc_value, byte) ==
    LET tmp == Xor(crc_value % 256, byte)
    IN  Xor((crc_value \div 256) % 256, crc_map[tmp + 1])

RECURSIVE crc_loop(_, _, _, _)
\* the for loop of calculate_crc over bytes lo..hi of data, in order; the range is
\* split in two so that the evaluation nests to the logarithm of its length
crc_loop(data, lo, hi, crc_value) ==
    IF lo > hi THEN crc_value
    ELSE IF lo = hi THEN crc_step(crc_value, data[lo])
    ELSE LET mid  == (lo + hi) \div 2
             left == crc_loop(data, lo, mid, crc_value)
         IN  IF left >= 0 THEN crc_loop(data, mid + 1, hi, left) ELSE left

\* calculate_crc as it would be with the register started at 0
calculate_crc_from_zero(data) == 65535 - crc_loop(data, 1, Len(data), 0)

\* ~crc_value & 0xffff of the register after the loop
calculate_crc(data) == 65535 - crc_loop(data, 1, Len(data), 65535)

\* struct.pack('>H', v)
pack_H(v) == <<v \div 256, v % 256>>
\* struct.unpack('>H', data)[0], data of 2 bytes
unpack_H(data) == data[1] * 256 + data[2]
\* struct.unpack('>I', data)[0], data of 4 bytes, as 2 words
unpack_I(data) == <<data[1] * 256 + data[2], data[3] * 256 + data[4]>>
\* unpack_Q as it would be were the format '<Q', little-endian
unpack_Q_little_endian(data) ==
    <<data[8] * 256 + data[7], data[6] * 256 + data[5],
      data[4] * 256 + data[3], data[2] * 256 + data[1]>>

\* struct.unpack('>Q', data)[0], data of 8 bytes, as 4 words
unpack_Q(data) == <<data[1] * 256 + data[2], data[3] * 256 + data[4],
                    data[5] * 256 + data[6], data[7] * 256 + data[8]>>

(***************************************************************************)
(* Timestamp codec.                                                        *)
(***************************************************************************)
\* Bits as it would be were the value 16 bits wide: the high word is not
\* shifted into a field that starts in the low word
Bits_low_word_only(value, shift, mask) ==
    IF shift >= 16
    THEN (value[1] \div Pow2(shift - 16)) % (mask + 1)
    ELSE (value[2] \div Pow2(shift)) % (mask + 1)

\* (value >> shift) & mask of a 32-bit value given as 2 words, mask = 2^k - 1 < 2^16
Bits(value, shift, mask) ==
    IF shift >= 16
    THEN (value[1] \div Pow2(shift - 16)) % (mask + 1)
    ELSE ((value[2] \div Pow2(shift)) + (value[1] % Pow2(shift)) * Pow2(16 - shift))
         % (mask + 1)

IsLeap(year) == (year % 4 = 0 /\ year % 100 # 0) \/ year % 400 = 0

DaysInMonth(year, month) ==
    IF month = 2 THEN (IF IsLeap(year) THEN 29 ELSE 28)
    ELSE IF month \in {4, 6, 9, 11} THEN 30 ELSE 31

\* datetime.datetime(year, month, day, hour, minute, second): the date, or ValueError
datetime(year, month, day, hour, minute, second) ==
    IF /\ year \in 1..9999
       /\ month \in 1..12
       /\ day \in 1..DaysInMonth(year, month)
       /\ hour \in 0..23
       /\ minute \in 0..59
       /\ second \in 0..59
    THEN [err |-> "", val |-> [year |-> year, month |-> month, day |-> day,
                               hour |-> hour, minute |-> minute, second |-> second]]
    ELSE [err |-> "ValueError", val |-> <<>>]

\* timestampToDate with the shifts of month and day exchanged
timestampToDate_day_before_month(value) ==
    LET year   == Bits(value, 0, 63) + 2000
        month  == Bits(value, 10, 15)
        day    == Bits(value, 6, 31)
        hour   == Bits(value, 15, 31)
        minute == Bits(value, 20, 63)
        second == Bits(value, 26, 63)
    IN  datetime(year, month, day, hour, minute, second)

timestampToDate(value) ==
    LET year   == Bits(value, 0, 63) + 2000
        month  == Bits(value, 6, 15)
        day    == Bits(value, 10, 31)
        hour   == Bits(value, 15, 31)
        minute == Bits(value, 20, 63)
        second == Bits(value, 26, 63)
    IN  datetime(year, month, day, hour, minute, second)

\* dateToTimestamp as it would be were each component reduced to a byte
dateToTimestamp_wrapping(date) ==
    LET bytes == <<date.second, date.minute, date.hour, date.day, date.month,
                   date.year - 2000>>
    IN  [err |-> "", val |-> [i \in 1..6 |-> bytes[i] % 256]]

\* struct.pack('>BBBBBB', ...): the 6 bytes, or struct.error when one is not a byte
dateToTimestamp(date) ==
    LET bytes == <<date.second, date.minute, date.hour, date.day, date.month,
                   date.year - 2000>>
    IN  IF \A i \in 1..6 : bytes[i] \in Byte
        THEN [err |-> "", val |-> bytes]
        ELSE [err |-> "struct.error", val |-> <<>>]

(***************************************************************************)
(* Frame construction.                                                     *)
(***************************************************************************)
\* Frame.__init__
Frame(op, u1, u2, pl) == [opcode |-> op, unk1 |-> u1, unk2 |-> u2, payload |-> pl]

\* the length/flags byte as it would be were unk2 left out of it
build_length_byte_without_unk2(f) == Len(f.payload) % 32

\* the length/flags byte Frame.build packs
build_length_byte(f) == ((f.unk2 % 8) * 32) + (Len(f.payload) % 32)

\* Frame.build with the pad byte appended whatever the payload's length
build_pad_always(f) ==
    LET head == <<f.opcode, f.unk1, build_length_byte(f)>> \o f.payload
        data == Append(head, 0)
    IN  data \o pack_H(calculate_crc(data))

\* Frame.build
build(f) ==
    LET len  == Len(f.payload)
        head == <<f.opcode, f.unk1, build_length_byte(f)>> \o f.payload
        data == IF len > 0 THEN Append(head, 0) ELSE head
    IN  data \o pack_H(calculate_crc(data))

InterrogateRequestFrame == Frame(1, 2, 0, <<>>)
SetTimeRequestFrame(ts) == Frame(9, 2, 0, ts)
GetParamRequestFrame(param) == Frame(8, 2, 0, <<param>>)
SetParamRequestFrame(param, value) == Frame(3, 2, 0, <<param, value>>)
GetDataRequestFrame == Frame(7, 2, 0, <<>>)


(***************************************************************************)
(* Payload decoding of the response classes.  The result is the exception  *)
(* raised ("" when none) and the attributes assigned before it.            *)
(***************************************************************************)
\* no attribute assigned
NoAttrs == [name \in {} |-> 0]

ResponseClasses == {"InterrogateResponseFrame", "SetTimeResponseFrame",
                    "GetParamResponseFrame", "SetParamResponseFrame",
                    "GetDataResponseFrame"}

\* InterrogateResponseFrame.parse_payload: struct.unpack('>xQ8s', payload)
\* InterrogateResponseFrame.parse_payload as it would be with struct.unpack_from:
\* bytes beyond the 17 of the layout are ignored
parse_interrogate_unpack_from(pl) ==
    IF Len(pl) < 17 THEN [err |-> "struct.error", set |-> NoAttrs]
    ELSE [err |-> "",
          set |-> [deviceId |-> unpack_Q(SubSeq(pl, 2, 9)),
                   firmwareVersion |-> SubSeq(pl, 10, 17)]]

parse_interrogate(pl) ==
    IF Len(pl) # 17 THEN [err |-> "struct.error", set |-> NoAttrs]
    ELSE [err |-> "",
          set |-> [deviceId |-> unpack_Q(SubSeq(pl, 2, 9)),
                   firmwareVersion |-> SubSeq(pl, 10, 17)]]

\* SetTimeResponseFrame.parse_payload
parse_set_time(pl) ==
    IF Len(pl) # 6 THEN [err |-> "struct.error", set |-> NoAttrs]
    ELSE LET fields == [second |-> pl[1], minute |-> pl[2], hour |-> pl[3],
                        day |-> pl[4], month |-> pl[5], year |-> pl[6] + 2000]
             d == datetime(fields.year, fields.month, fields.day,
                           fields.hour, fields.minute, fields.second)
         IN  IF d.err # "" THEN [err |-> d.err, set |-> fields]
             ELSE [err |-> "", set |-> ("date" :> d.val) @@ fields]

\* GetParamResponseFrame.parse_payload, inherited by SetParamResponseFrame
parse_param(pl) ==
    IF Len(pl) # 2 THEN [err |-> "struct.error", set |-> NoAttrs]
    ELSE [err |-> "", set |-> [param |-> pl[1], param_value |-> pl[2]]]

\* self.parse_payload() as dispatched on the class of the frame
parse_payload(c, pl) ==
    CASE c = "InterrogateResponseFrame" -> parse_interrogate(pl)
      [] c = "SetTimeResponseFrame" -> parse_set_time(pl)
      [] c \in {"GetParamResponseFrame", "SetParamResponseFrame"} -> parse_param(pl)
      [] OTHER -> [err |-> "", set |-> NoAttrs]

\* parse_record as it would be were a length below 5 taken for a record without
\* barcode data
parse_record_short_as_empty(len, data) ==
    IF Len(data) # len THEN [err |-> "struct.error", val |-> <<>>]
    ELSE IF len < 5
    THEN [err |-> "",
          val |-> [symbology |-> data[1], barcode |-> <<>>,
                   timestamp |-> datetime(2000, 1, 1, 0, 0, 0).val]]
    ELSE LET d == timestampToDate(unpack_I(SubSeq(data, len - 3, len)))
         IN  IF d.err # "" THEN [err |-> d.err, val |-> <<>>]
             ELSE [err |-> "",
                   val |-> [symbology |-> data[1],
                            barcode |-> SubSeq(data, 2, len - 4),
                            timestamp |-> d.val]]

\* one record of a GetData response: struct.unpack('>B%dsI' % (length - 5), data)
\* and the Barcode built from it
parse_record(len, data) ==
    IF len < 5 \/ Len(data) # len THEN [err |-> "struct.error", val |-> <<>>]
    ELSE LET d == timestampToDate(unpack_I(SubSeq(data, len - 3, len)))
         IN  IF d.err # "" THEN [err |-> d.err, val |-> <<>>]
             ELSE [err |-> "",
                   val |-> [symbology |-> data[1],
                            barcode |-> SubSeq(data, 2, len - 4),
                            timestamp |-> d.val]]

\* crc_input as it would be were the two header bytes left out of the checksum
crc_input_without_header(r) == SubSeq(r, 3, Len(r) - 2)

\* the bytes checked against the received checksum: self.raw[:-2]
crc_input(r) == SubSeq(r, 1, Len(r) - 2)

\* checksum_fails as it would be were only the low byte of the checksum compared
checksum_fails_low_byte(r, crc) == calculate_crc(crc_input(r)) % 256 # crc % 256

\* the verification: calculate_crc(self.raw[:-2]) != self.crc
checksum_fails(r, crc) == calculate_crc(crc_input(r)) # crc

(***************************************************************************)
(* The stream.  read(n) delivers the next n bytes, or fewer when the       *)
(* stream ends first.                                                      *)
(***************************************************************************)
ReadEvent(at, n, data) == [op |-> "read", at |-> at, req |-> n, data |-> data]
WriteEvent(data) == [op |-> "write", at |-> "send_frame", req |-> Len(data), data |-> data]

\* Frame._stream_read: read, and append what was read to self.raw
stream_read(at, n) ==
    /\ stream' = Drop(stream, n)
    /\ raw' = raw \o Take(stream, n)
    /\ io' = Append(io, ReadEvent(at, n, Take(stream, n)))

\* an exception leaves the call
Raise(e) == pc' = "error" /\ err' = e

\* send_frame as it would be were the request written a second time
send_frame_twice(f) == <<WriteEvent(build(f)), WriteEvent(build(f))>>

\* OpticonAPI.send_frame: the writes it makes on the stream
send_frame(f) == <<WriteEvent(build(f))>>

(***************************************************************************)
(* Frame.receive and Frame.receive_data, one action per read.              *)
(***************************************************************************)
\* where Frame.receive goes after the header: self.receive_data of the class
receive_data_entry(c) == IF c = "GetDataResponseFrame" THEN "deviceId" ELSE "length"

\* Frame.receive: the 2 header bytes
ReceiveHeader ==
    /\ pc = "header"
    /\ stream_read("header", 2)
    /\ IF Len(Take(stream, 2)) # 2
       THEN /\ Raise("struct.error")
            /\ UNCHANGED <<opcode, unk1>>
       ELSE /\ opcode' = stream[1]
            /\ unk1' = stream[2]
            /\ pc' = receive_data_entry(cls)
            /\ err' = err
    /\ UNCHANGED <<cls, unk2, length, payload, attrs, request, reply, calls, now, sent>>

\* Frame.receive_data: the length byte
ReceiveLength ==
    /\ pc = "length"
    /\ stream_read("length", 1)
    /\ IF Len(Take(stream, 1)) # 1
       THEN /\ Raise("struct.error")
            /\ UNCHANGED <<unk2, length>>
       ELSE /\ unk2' = (stream[1] \div 32) % 8
            /\ length' = stream[1] % 32
            /\ pc' = "payload"
            /\ err' = err
    /\ UNCHANGED <<cls, opcode, unk1, payload, attrs, request, reply, calls, now, sent>>

\* Frame.receive_data: the payload and self.parse_payload()
ReceivePayload ==
    /\ pc = "payload"
    /\ stream_read("payload", length)
    /\ payload' = Take(stream, length)
    /\ LET p == parse_payload(cls, payload')
       IN  /\ attrs' = p.set @@ attrs
           /\ IF p.err # "" THEN Raise(p.err)
              ELSE /\ pc' = (IF length > 0 THEN "pad" ELSE "crc")
                   /\ err' = err
    /\ UNCHANGED <<cls, opcode, unk1, unk2, length, request, reply, calls, now, sent>>

\* Frame.receive_data: the pad byte, read and dropped
ReceivePad ==
    /\ pc = "pad"
    /\ stream_read("pad", 1)
    /\ pc' = "crc"
    /\ UNCHANGED <<cls, opcode, unk1, unk2, length, payload, attrs, err, request,
                   reply, calls, now, sent>>

\* Frame.receive_data: the checksum and its verification
ReceiveCrc ==
    /\ pc = "crc"
    /\ stream_read("crc", 2)
    /\ IF Len(Take(stream, 2)) # 2
       THEN /\ Raise("struct.error")
            /\ attrs' = attrs
       ELSE /\ attrs' = ("crc" :> unpack_H(Take(stream, 2))) @@ attrs
            /\ IF checksum_fails(raw', attrs'.crc)
               THEN Raise("InvalidFrameException")
               ELSE pc' = "done" /\ err' = err
    /\ UNCHANGED <<cls, opcode, unk1, unk2, length, payload, request, reply, calls, now, sent>>

(***************************************************************************)
(* GetDataResponseFrame.receive_data.                                      *)
(***************************************************************************)
\* the device id and the empty barcode list
GetDataDeviceId ==
    /\ pc = "deviceId"
    /\ stream_read("deviceId", 8)
    /\ IF Len(Take(stream, 8)) # 8
       THEN /\ Raise("struct.error")
            /\ attrs' = attrs
       ELSE /\ attrs' = [deviceId |-> unpack_Q(Take(stream, 8)), barcodes |-> <<>>] @@ attrs
            /\ pc' = "record"
            /\ err' = err
    /\ UNCHANGED <<cls, opcode, unk1, unk2, length, payload, request, reply, calls, now, sent>>

\* add_barcode as it would be were the new Barcode put at the front of the list
add_barcode_front(list, b) == <<b>> \o list

\* what a list becomes when a Barcode is added to it: self.barcodes.append(...)
add_barcode(list, b) == Append(list, b)

\* one iteration of the while loop: the record length, then the record
GetDataRecord ==
    /\ pc = "record"
    /\ LET lenData == Take(stream, 1)
           len     == lenData[1]
           rest    == Drop(stream, 1)
           data    == Take(rest, len)
           rec     == parse_record(len, data)
       IN  IF Len(lenData) # 1
           THEN /\ stream_read("record_length", 1)
                /\ Raise("struct.error")
                /\ attrs' = attrs
           ELSE IF len = 0
           THEN /\ stream_read("record_length", 1)
                /\ pc' = "done"
                /\ UNCHANGED <<attrs, err>>
           ELSE /\ stream' = Drop(rest, len)
                /\ raw' = raw \o lenData \o data
                /\ io' = io \o <<ReadEvent("record_length", 1, lenData),
                                 ReadEvent("record", len, data)>>
                /\ IF rec.err # ""
                   THEN Raise(rec.err) /\ attrs' = attrs
                   ELSE /\ attrs' = [attrs EXCEPT !.barcodes = add_barcode(@, rec.val)]
                        /\ UNCHANGED <<pc, err>>
    /\ UNCHANGED <<cls, opcode, unk1, unk2, length, payload, request, reply, calls, now, sent>>


(***************************************************************************)
(* The peer: what the device at the other end of the stream may answer.    *)
(***************************************************************************)
\* a byte string with the lowest bit of its last byte flipped
Corrupt(s) == [s EXCEPT ![Len(s)] = Xor(@, 1)]

\* the proper prefixes of a byte string: the stream ends early
Prefixes(s) == {Take(s, n) : n \in 0..(Len(s) - 1)}

\* the 32-bit packed form of a date (the layout timestampToDate reads), as 4 bytes
PackTimestamp(d) ==
    LET hi == d.second * 1024 + d.minute * 16 + (d.hour \div 2)
        lo == (d.hour % 2) * 32768 + d.day * 1024 + d.month * 64
              + ((d.year - 2000) % 64)
    IN  <<hi \div 256, hi % 256, lo \div 256, lo % 256>>

Date(y, mo, d, h, mi, s) ==
    [year |-> y, month |-> mo, day |-> d, hour |-> h, minute |-> mi, second |-> s]

\* 1 skipped byte, device id 0xAABBCCDDEEFF0011, firmware "V1.00\0\0\0"
InterrogatePayload ==
    <<0, 170, 187, 204, 221, 238, 255, 0, 17, 86, 49, 46, 48, 48, 0, 0, 0>>

\* payloads of the right size for the class
GoodPayloads(c) ==
    CASE c = "InterrogateResponseFrame" -> {InterrogatePayload}
      [] c = "SetTimeResponseFrame" -> {<<59, 58, 23, 29, 2, 24>>}
      [] c = "GetParamResponseFrame" -> {<<79, 1>>}
      [] c = "SetParamResponseFrame" -> {<<2, 0>>}
      [] OTHER -> {}

\* payloads a correct frame may carry that the class cannot decode
BadPayloads(c) ==
    CASE c = "InterrogateResponseFrame" -> {SubSeq(InterrogatePayload, 1, 9)}
      [] c = "SetTimeResponseFrame" -> {<<0, 0, 0, 31, 2, 21>>, <<1, 2, 3, 4, 5>>}
      [] c = "GetParamResponseFrame" -> {<<79>>, <<79, 1, 0>>, <<>>}
      [] c = "SetParamResponseFrame" -> {<<2, 0, 0>>}
      [] OTHER -> {}

\* the opcode the device answers with
ReplyOpcode(c) ==
    CASE c = "InterrogateResponseFrame" -> 1
      [] c = "SetTimeResponseFrame" -> 9
      [] c = "GetParamResponseFrame" -> 8
      [] c = "SetParamResponseFrame" -> 3
      [] OTHER -> 7

\* the answers to a request whose response is parsed by Frame.receive_data
GenericReplies(c) ==
    LET good == {build(Frame(ReplyOpcode(c), 2, u2, pl)) :
                    u2 \in {0, 5}, pl \in GoodPayloads(c)}
        bad  == {build(Frame(ReplyOpcode(c), 2, 0, pl)) : pl \in BadPayloads(c)}
    IN  good \cup bad
        \cup {Corrupt(f) : f \in good \cup bad}
        \cup UNION {Prefixes(build(Frame(ReplyOpcode(c), 2, 0, pl))) : pl \in GoodPayloads(c)}

DeviceIdBytes == <<1, 2, 3, 4, 5, 6, 7, 8>>

\* the barcodes the device may hold
RecordPool ==
    {[symbology |-> 9, barcode |-> <<49, 50, 51, 52, 53>>,
      timestamp |-> Date(2021, 3, 4, 5, 6, 7)],
     [symbology |-> 31, barcode |-> <<>>,
      timestamp |-> Date(2063, 12, 31, 23, 59, 59)]}

RecordLists == UNION {[1..n -> RecordPool] : n \in 0..MaxRecords}

\* a record on the wire: length, symbology, data, packed timestamp
EncodeRecord(r) ==
    <<Len(r.barcode) + 5, r.symbology>> \o r.barcode \o PackTimestamp(r.timestamp)

RECURSIVE EncodeRecords(_)
EncodeRecords(recs) ==
    IF recs = <<>> THEN <<>> ELSE EncodeRecord(Head(recs)) \o EncodeRecords(Tail(recs))

\* records the decoder cannot take: too short to hold a timestamp, month and day 0
BadRecords == {<<3, 9, 49, 50>>, <<5, 9, 0, 0, 0, 0>>}

\* a frame: the bytes and the CRC-16 of all of them
WithCrc(data) == data \o pack_H(calculate_crc(data))

\* a GetData answer laid out as GetDataResponseFrame.receive_data reads it:
\* header, device id, records, a zero length byte, checksum
GetDataFrame(recs) == WithCrc(<<7, 2>> \o DeviceIdBytes \o EncodeRecords(recs) \o <<0>>)

\* the same with the flag/length byte of the frame layout after the header
GetDataFrameWithLength(lb, recs) ==
    WithCrc(<<7, 2, lb>> \o DeviceIdBytes \o EncodeRecords(recs) \o <<0>>)

GetDataReplies ==
    {GetDataFrame(recs) : recs \in RecordLists}
    \cup {Corrupt(GetDataFrame(recs)) : recs \in RecordLists}
    \cup {WithCrc(<<7, 2>> \o DeviceIdBytes \o EncodeRecords(recs) \o b) :
             recs \in {r \in RecordLists : Len(r) <= 1}, b \in BadRecords}
    \cup {GetDataFrameWithLength(1, recs) : recs \in {r \in RecordLists : Len(r) = 1}}
    \cup UNION {Prefixes(GetDataFrame(recs)) : recs \in {r \in RecordLists : Len(r) = 1}}

Replies(c) == IF c = "GetDataResponseFrame" THEN GetDataReplies ELSE GenericReplies(c)

(***************************************************************************)
(* OpticonAPI.                                                             *)
(***************************************************************************)
\* the dates set_time is called with; the first cannot be encoded
SetTimeDates == {Date(1999, 12, 31, 23, 59, 59), Date(2024, 2, 29, 23, 58, 59)}

\* a call can be made when none is in progress
CanCall == pc \in {"idle", "done", "error"} /\ calls < MaxExchanges

\* send_frame(request), then receive_frame(c) up to frame = cls(); the device
\* answers the request with rep
Exchange(req, c, rep) ==
    /\ request' = req
    /\ io' = send_frame(req)
    /\ stream' = stream \o rep
    /\ reply' = rep
    /\ cls' = c
    /\ raw' = <<>>
    /\ opcode' = 0
    /\ unk1' = 2
    /\ unk2' = 0
    /\ length' = 0
    /\ payload' = <<>>
    /\ attrs' = NoAttrs
    /\ err' = ""
    /\ pc' = "header"
    /\ calls' = calls + 1

\* the request could not be constructed: the exception leaves the call at once
RequestFails(e) ==
    /\ Raise(e)
    /\ io' = <<>>
    /\ request' = <<>>
    /\ reply' = <<>>
    /\ cls' = "none"
    /\ raw' = <<>>
    /\ opcode' = 0
    /\ unk1' = 2
    /\ unk2' = 0
    /\ length' = 0
    /\ payload' = <<>>
    /\ attrs' = NoAttrs
    /\ calls' = calls + 1
    /\ UNCHANGED stream

interrogate ==
    /\ CanCall
    /\ \E rep \in Replies("InterrogateResponseFrame") :
          Exchange(InterrogateRequestFrame, "InterrogateResponseFrame", rep)
    /\ UNCHANGED <<now, sent>>

\* the moment the module was loaded: class OpticonAPI is defined then
DefinitionTime == Date(2026, 11, 2, 10, 30, 0)

\* datetime.datetime.now()
datetime_now == [DefinitionTime EXCEPT !.second = now]

\* the default date of a call without one, as the program would have it if it
\* read the clock in the body of set_time
set_time_default_at_call == datetime_now

\* def set_time(self, date=datetime.datetime.now()): the default is evaluated
\* once, when the def statement runs
set_time_default == DefinitionTime

\* set_time(date), and set_time() when omitted
set_time ==
    /\ CanCall
    /\ \E arg \in {[omitted |-> FALSE, date |-> d] : d \in SetTimeDates}
                    \cup {[omitted |-> TRUE, date |-> set_time_default]} :
          LET ts == dateToTimestamp(arg.date)
          IN  /\ IF ts.err # "" THEN RequestFails(ts.err)
                 ELSE \E rep \in Replies("SetTimeResponseFrame") :
                         Exchange(SetTimeRequestFrame(ts.val), "SetTimeResponseFrame", rep)
              /\ sent' = IF arg.omitted /\ ts.err = ""
                         THEN Append(sent, [time |-> now,
                                            data |-> build(SetTimeRequestFrame(ts.val))])
                         ELSE sent
    /\ UNCHANGED now

\* a second passes between two calls
Tick ==
    /\ pc \in {"idle", "done", "error"}
    /\ now < MaxClock
    /\ now' = now + 1
    /\ UNCHANGED <<stream, io, pc, cls, raw, opcode, unk1, unk2, length, payload,
                   attrs, err, request, reply, calls, sent>>

get_param ==
    /\ CanCall
    /\ \E param \in {79} :
       \E rep \in Replies("GetParamResponseFrame") :
          Exchange(GetParamRequestFrame(param), "GetParamResponseFrame", rep)
    /\ UNCHANGED <<now, sent>>

set_param ==
    /\ CanCall
    /\ \E param \in {2}, value \in {0} :
       \E rep \in Replies("SetParamResponseFrame") :
          Exchange(SetParamRequestFrame(param, value), "SetParamResponseFrame", rep)
    /\ UNCHANGED <<now, sent>>

get_data ==
    /\ CanCall
    /\ \E rep \in Replies("GetDataResponseFrame") :
          Exchange(GetDataRequestFrame, "GetDataResponseFrame", rep)
    /\ UNCHANGED <<now, sent>>

Init ==
    /\ stream = <<>>
    /\ io = <<>>
    /\ pc = "idle"
    /\ cls = "none"
    /\ raw = <<>>
    /\ opcode = 0
    /\ unk1 = 2
    /\ unk2 = 0
    /\ length = 0
    /\ payload = <<>>
    /\ attrs = NoAttrs
    /\ err = ""
    /\ request = <<>>
    /\ reply = <<>>
    /\ calls = 0
    /\ now = 0
    /\ sent = <<>>

Next ==
    \/ interrogate
    \/ set_time
    \/ get_param
    \/ set_param
    \/ get_data
    \/ ReceiveHeader
    \/ ReceiveLength
    \/ ReceivePayload
    \/ ReceivePad
    \/ ReceiveCrc
    \/ GetDataDeviceId
    \/ GetDataRecord

Spec == Init /\ [][Next]_vars

(***************************************************************************)
(* The codec on its own: a frame is built, its bytes are handed to the     *)
(* parser of the generic Frame, as built or with one bit flipped.          *)
(***************************************************************************)
\* a payload of n bytes
Pattern(n) == [i \in 1..n |-> (i * 37 + n) % 256]

\* the last payload holds the checksum of the empty frame 01 02 00
CodecPayloads ==
    {Pattern(n) : n \in 0..MaxPayloadLen} \cup {<<0>>, <<255>>, <<255, 255>>, <<159, 222>>}

CodecFrames ==
    {Frame(1, 2, 0, pl) : pl \in CodecPayloads}
    \cup {Frame(op, u1, u2, <<65, 66>>) : op \in {0, 255}, u1 \in {2, 3}, u2 \in {5, 7}}

\* s with bit b of byte i flipped
FlipBit(s, i, b) == [s EXCEPT ![i] = Xor(@, Pow2(b))]

CodecInit ==
    /\ stream = <<>>
    /\ io = <<>>
    /\ pc = "build"
    /\ cls = "Frame"
    /\ raw = <<>>
    /\ opcode = 0
    /\ unk1 = 2
    /\ unk2 = 0
    /\ length = 0
    /\ payload = <<>>
    /\ attrs = NoAttrs
    /\ err = ""
    /\ request \in CodecFrames
    /\ reply = <<>>
    /\ calls = 0
    /\ now = 0
    /\ sent = <<>>

\* frame.build()
CodecBuild ==
    /\ pc = "build"
    /\ reply' = build(request)
    /\ pc' = "built"
    /\ UNCHANGED <<stream, io, cls, raw, opcode, unk1, unk2, length, payload, attrs,
                   err, request, calls, now, sent>>

\* the bytes reach the parser as built
CodecDeliver ==
    /\ pc = "built"
    /\ stream' = reply
    /\ pc' = "header"
    /\ UNCHANGED <<io, cls, raw, opcode, unk1, unk2, length, payload, attrs, err,
                   request, reply, calls, now, sent>>

\* the bytes reach the parser with one bit flipped
CodecTamper ==
    /\ pc = "built"
    /\ \E i \in 1..Len(reply), b \in 0..7 : stream' = FlipBit(reply, i, b)
    /\ pc' = "header"
    /\ UNCHANGED <<io, cls, raw, opcode, unk1, unk2, length, payload, attrs, err,
                   request, reply, calls, now, sent>>

CodecNext ==
    \/ CodecBuild
    \/ CodecDeliver
    \/ CodecTamper
    \/ ReceiveHeader
    \/ ReceiveLength
    \/ ReceivePayload
    \/ ReceivePad
    \/ ReceiveCrc

SpecCodec == CodecInit /\ [][CodecNext]_vars

(***************************************************************************)
(* GetDataResponseFrame on its own: get_data has written its request, the  *)
(* device has answered, and the response is parsed to its end.             *)
(***************************************************************************)
\* the byte strings of at most MaxTail bytes over a few record-length values
Tails == UNION {[1..n -> 0..5] : n \in 0..MaxTail}

\* what the stream may hold: the answers of the device, and a header and device
\* id followed by arbitrary bytes
GetDataStreams ==
    GetDataReplies \cup {<<7, 2>> \o DeviceIdBytes \o t : t \in Tails}

GetDataInit ==
    /\ stream \in GetDataStreams
    /\ reply = stream
    /\ io = send_frame(GetDataRequestFrame)
    /\ pc = "header"
    /\ cls = "GetDataResponseFrame"
    /\ raw = <<>>
    /\ opcode = 0
    /\ unk1 = 2
    /\ unk2 = 0
    /\ length = 0
    /\ payload = <<>>
    /\ attrs = NoAttrs
    /\ err = ""
    /\ request = GetDataRequestFrame
    /\ calls = 1
    /\ now = 0
    /\ sent = <<>>

GetDataNext ==
    \/ ReceiveHeader
    \/ GetDataDeviceId
    \/ GetDataRecord

\* the parse is sequential code over a stream that has ended: each step is taken
SpecGetData == GetDataInit /\ [][GetDataNext]_vars /\ WF_vars(GetDataNext)

(***************************************************************************)
(* Properties.                                                             *)
(***************************************************************************)
Finished == pc \in {"done", "error"}

GenericClasses == ResponseClasses \ {"GetDataResponseFrame"}

RECURSIVE ReadBytes(_)
\* the bytes the reads of a log delivered, in order
ReadBytes(log) ==
    IF log = <<>> THEN <<>>
    ELSE (IF Head(log).op = "read" THEN Head(log).data ELSE <<>>) \o ReadBytes(Tail(log))

\* the bytes the parser was handed: those it has read and those still on the stream
Delivered == raw \o stream

\* the codec's parser was handed the bytes of build with a bit flipped
Tampered == pc \notin {"build", "built"} /\ Delivered # reply

\* all but the last 2 bytes, and the last 2 bytes as a big-endian number
AllButLast2(s) == SubSeq(s, 1, Len(s) - 2)
Last2(s) == s[Len(s) - 1] * 256 + s[Len(s)]

\* the last read of the log was the checksum read and it delivered its 2 bytes
ChecksumReceived ==
    /\ io # <<>>
    /\ io[Len(io)].at = "crc"
    /\ Len(io[Len(io)].data) = 2

\* C1: parsing the bytes Frame.build produced for a frame with payload b ends with
\* the payload b, and never with InvalidFrameException, whatever b is.
C1_RoundTrip ==
    (Finished /\ Delivered = reply) =>
        (pc = "done" /\ payload = request.payload /\ err # "InvalidFrameException")

\* C2: Frame.build of a 31-byte payload gives a frame that parses; for a payload
\* of 32 bytes or more it fails with PayloadTooLarge and emits nothing.
C2_LengthBoundary ==
    /\ (Finished /\ Delivered = reply /\ Len(request.payload) = 31) => pc = "done"
    /\ (pc # "build" /\ Len(request.payload) >= 32) =>
           (err = "PayloadTooLarge" /\ reply = <<>>)

\* C3: a GetData response that is returned has had its 2 trailing checksum bytes
\* read and found equal to the CRC-16 of every byte of the frame before them.
C3_GetDataChecksumValidated ==
    (cls = "GetDataResponseFrame" /\ pc = "done") =>
        LET got == ReadBytes(io)
        IN  /\ Len(got) >= 2
            /\ "crc" \in DOMAIN attrs
            /\ attrs.crc = Last2(got)
            /\ attrs.crc = calculate_crc(AllButLast2(got))

\* the record of the GetData scenario
ScenarioRecord ==
    [symbology |-> 9, barcode |-> <<49, 50, 51, 52, 53>>,
     timestamp |-> Date(2021, 3, 4, 5, 6, 7)]

\* 0x0102030405060708 as 4 words
ScenarioDeviceId == <<258, 772, 1286, 1800>>

C5_ChecksumDecides ==
    (cls \in GenericClasses /\ Finished) =>
        LET got == ReadBytes(io)
        IN  /\ err = "InvalidFrameException" <=>
                  (ChecksumReceived /\ calculate_crc(AllButLast2(got)) # Last2(got))
            /\ pc = "done" =>
                  (ChecksumReceived /\ calculate_crc(AllButLast2(got)) = Last2(got))
            /\ ChecksumReceived =>
                  /\ AllButLast2(got) =
                        <<opcode, unk1, unk2 * 32 + length>> \o payload
                            \o (IF length > 0 THEN <<got[Len(got) - 2]>> ELSE <<>>)
                  /\ Len(payload) = length

\* C5 happens: a frame of the generic path is refused for its checksum
C5_Witness ==
    /\ cls \in GenericClasses
    /\ err = "InvalidFrameException"
    /\ ChecksumReceived

\* C6 as stated: whichever bit of a built frame is flipped, the parse ends with
\* InvalidFrameException.
C6_AnyFlipInvalidFrame == (Finished /\ Tampered) => err = "InvalidFrameException"

\* C6 as amended: for a frame built from a payload of at most 31 bytes, a flipped
\* bit outside the 5 length bits ends the parse with InvalidFrameException; a
\* length bit flipped from 0 to 1 makes the parser run out of stream and ends it
\* with struct.error; one flipped from 1 to 0 ends it with InvalidFrameException
\* or, when the bytes read happen to check out, with a frame.
C6_FlipOutsideLengthBits ==
    (Finished /\ Tampered /\ Len(request.payload) <= 31) =>
        /\ (Delivered[3] % 32 = reply[3] % 32) => err = "InvalidFrameException"
        /\ (Delivered[3] % 32 > reply[3] % 32) => err = "struct.error"
        /\ (Delivered[3] % 32 < reply[3] % 32) => err \in {"", "InvalidFrameException"}

\* C6 happens: a bit of the payload of a 31-byte frame was flipped and the parse
\* ended with InvalidFrameException
C6_Witness ==
    /\ Finished
    /\ Tampered
    /\ Len(request.payload) = 31
    /\ Delivered[3] = reply[3]
    /\ SubSeq(Delivered, 4, 34) # SubSeq(reply, 4, 34)
    /\ err = "InvalidFrameException"

\* C7: a frame that is returned has a verified checksum, and a parse that raises
\* has set no decoded field of the frame.
C7_NoPartialFrame ==
    /\ (pc = "done" /\ cls \in ResponseClasses) =>
           /\ "crc" \in DOMAIN attrs
           /\ attrs.crc = Last2(raw)
           /\ attrs.crc = calculate_crc(AllButLast2(raw))
    /\ (pc = "error") => (DOMAIN attrs \subseteq {"crc"})

\* C8: a read that delivers fewer bytes than requested is the last read of the
\* parse, which ends there with an error.
C8_ShortReadAborts ==
    \A i \in 1..Len(io) :
        (io[i].op = "read" /\ Len(io[i].data) < io[i].req) =>
            (i = Len(io) /\ pc = "error")

\* the positions of the writes, and of the header reads, of the current call
Writes == {i \in 1..Len(io) : io[i].op = "write"}
HeaderReads == {i \in 1..Len(io) : io[i].at = "header"}

\* C9 as stated: every call that has ended made exactly one write, before all its
\* reads, and read exactly one response frame.
C9_ExactlyOneWrite ==
    Finished => (Writes = {1} /\ Cardinality(HeaderReads) = 1)

\* C9 as amended: a call makes at most one write, the write of the serialized
\* request, and it precedes every read; at most one response frame is read; a call
\* that has ended made exactly one write and read exactly one frame, unless its
\* request could not be constructed, in which case nothing was written or read.
C9_AtMostOneWrite ==
    /\ Cardinality(Writes) <= 1
    /\ Cardinality(HeaderReads) <= 1
    /\ io # <<>> => (Writes = {1} /\ io[1].data = build(request))
    /\ Finished =>
          IF request = <<>> THEN io = <<>> /\ err = "struct.error"
          ELSE Writes = {1} /\ Cardinality(HeaderReads) = 1

\* C9 happens: an exchange failed after its write and the reads of its frame
C9_Witness ==
    /\ pc = "error"
    /\ err = "InvalidFrameException"
    /\ Writes = {1}
    /\ Len(io) > 4

\* the barcode list of a returned GetData response is the list of records the
\* device sent before the zero length byte, which is the last byte read
C10_Records ==
    \A recs \in RecordLists :
        (/\ cls = "GetDataResponseFrame"
         /\ pc = "done"
         /\ ReadBytes(io) \o stream = reply
         /\ reply \in {GetDataFrame(recs), Corrupt(GetDataFrame(recs))}) =>
            /\ attrs.barcodes = recs
            /\ Len(stream) = 2

\* C10: the records are read up to the first zero length byte, each as 1 symbology
\* byte, L-5 data bytes and a 4-byte timestamp, and are returned in arrival order;
\* the loop ends, with the response or with an error.
C10_RecordList ==
    /\ []C10_Records
    /\ (cls = "GetDataResponseFrame" /\ pc \in {"deviceId", "record"}) ~> Finished

\* C10 happens: a response with two different records was returned
C10_Witness ==
    /\ cls = "GetDataResponseFrame"
    /\ pc = "done"
    /\ Len(attrs.barcodes) = 2
    /\ attrs.barcodes[1] # attrs.barcodes[2]

(***************************************************************************)
(* The layout Frame.build emits.                                           *)
(***************************************************************************)
\* the frame handed to Frame.build has been built
Built == pc # "build" /\ cls = "Frame" /\ request # <<>>

\* the bytes of a built frame that the checksum covers
Covered == AllButLast2(reply)

\* C11: Frame.build emits the opcode, the flag byte, the byte
\* (reserved bits << 5) | (length & 0x1F), the payload, one 0x00 pad byte iff the
\* payload is not empty, then the big-endian CRC-16 of all the bytes before it;
\* the output has 5 bytes for an empty payload and length + 6 otherwise.
C11_BuildLayout ==
    Built =>
        LET n == Len(request.payload)
        IN  /\ Len(reply) = IF n = 0 THEN 5 ELSE n + 6
            /\ reply[1] = request.opcode
            /\ reply[2] = request.unk1
            /\ reply[3] = request.unk2 * 32 + (n % 32)
            /\ SubSeq(reply, 4, 3 + n) = request.payload
            /\ (n > 0 => reply[4 + n] = 0)
            /\ Len(Covered) = IF n = 0 THEN 3 ELSE n + 4
            /\ Last2(reply) = calculate_crc(Covered)

\* both branches of the pad have been built with reserved bits set: seen here on
\* the non-empty one
C11_Witness ==
    /\ pc = "built"
    /\ request.unk2 = 5
    /\ Len(request.payload) = 2
    /\ Len(reply) = 8

\* an empty payload has been built
C11_WitnessEmpty == pc = "built" /\ request.payload = <<>> /\ Len(reply) = 5

(***************************************************************************)
(* timestampToDate on its own: a 32-bit device timestamp is decoded.  The  *)
(* timestamp is the packing of six field values, calendar or not.          *)
(***************************************************************************)
\* the field values the timestamps are packed from; the years beyond 2063 do not
\* fit the 6 bits of the year field
TimestampYears == {2000, 2023, 2024, 2063, 2064, 2100, 2255}
TimestampMonths == {0, 1, 2, 4, 12, 13, 15}
TimestampDays == {0, 1, 28, 29, 30, 31}
TimestampHours == {0, 13, 23, 24, 31}
TimestampMinutes == {0, 59, 60}
TimestampSeconds == {0, 59, 63}

TimestampInit ==
    /\ request \in {Date(y, mo, d, h, mi, s) :
                        y \in TimestampYears, mo \in TimestampMonths,
                        d \in TimestampDays, h \in TimestampHours,
                        mi \in TimestampMinutes, s \in TimestampSeconds}
    /\ payload = PackTimestamp(request)
    /\ pc = "timestamp"
    /\ stream = <<>>
    /\ io = <<>>
    /\ cls = "none"
    /\ raw = <<>>
    /\ opcode = 0
    /\ unk1 = 2
    /\ unk2 = 0
    /\ length = 0
    /\ attrs = NoAttrs
    /\ err = ""
    /\ reply = <<>>
    /\ calls = 0
    /\ now = 0
    /\ sent = <<>>

\* timestampToDate(struct.unpack('>I', payload)[0])
DecodeTimestamp ==
    /\ pc = "timestamp"
    /\ LET date == timestampToDate(unpack_I(payload))
       IN  /\ err' = date.err
           /\ attrs' = IF date.err = "" THEN [timestamp |-> date.val] ELSE NoAttrs
           /\ pc' = IF date.err = "" THEN "done" ELSE "error"
    /\ UNCHANGED <<stream, io, cls, raw, opcode, unk1, unk2, length, payload,
                   request, reply, calls, now, sent>>

TimestampNext == DecodeTimestamp

SpecTimestamp == TimestampInit /\ [][TimestampNext]_vars

\* the six fields of the 4 timestamp bytes, read off the bytes: bits 0-5, 6-9,
\* 10-14, 15-19, 20-25 and 26-31 of the big-endian value
FieldsOf(b) ==
    [year   |-> (b[4] % 64) + 2000,
     month  |-> (b[3] % 4) * 4 + (b[4] \div 64),
     day    |-> (b[3] \div 4) % 32,
     hour   |-> (b[2] % 16) * 2 + (b[3] \div 128),
     minute |-> (b[1] % 4) * 16 + (b[2] \div 16),
     second |-> b[1] \div 4]

\* the fields form a calendar date and time
ValidCalendar(f) ==
    /\ f.month >= 1 /\ f.month <= 12
    /\ f.day >= 1 /\ f.day <= DaysInMonth(f.year, f.month)
    /\ f.hour <= 23
    /\ f.minute <= 59
    /\ f.second <= 59

TimestampDecoded == pc \in {"done", "error"} /\ Len(payload) = 4 /\ cls = "none"

\* C12: decoding a 32-bit timestamp v yields year = (v & 0x3F) + 2000,
\* month = (v >> 6) & 0x0F, day = (v >> 10) & 0x1F, hour = (v >> 15) & 0x1F,
\* minute = (v >> 20) & 0x3F, second = (v >> 26) & 0x3F, and fails (ValueError,
\* the program's InvalidTimestamp) exactly when these fields are no calendar
\* date and time.
C12_DecodeFields ==
    TimestampDecoded =>
        IF ValidCalendar(FieldsOf(payload))
        THEN pc = "done" /\ err = "" /\ attrs = [timestamp |-> FieldsOf(payload)]
        ELSE pc = "error" /\ err = "ValueError" /\ attrs = NoAttrs

\* a timestamp with every field non-zero was decoded to its date
C12_Witness ==
    /\ TimestampDecoded
    /\ pc = "done"
    /\ attrs.timestamp = Date(2023, 12, 31, 13, 59, 59)

\* a timestamp whose day is beyond the month's length was refused
C12_WitnessInvalid ==
    /\ TimestampDecoded
    /\ pc = "error"
    /\ FieldsOf(payload).month = 2
    /\ FieldsOf(payload).day = 30
    /\ FieldsOf(payload).hour = 13

\* the timestamp decoded was packed from a calendar date and time
PackedFromDate == TimestampDecoded /\ ValidCalendar(request)

\* C13 as stated: for every calendar date and time d with year in 2000..2255,
\* decoding the 32-bit packing of d returns d.
C13_RoundTripTo2255 ==
    (PackedFromDate /\ request.year \in 2000..2255) =>
        (pc = "done" /\ attrs = [timestamp |-> request])

\* C13, amended: for every calendar date and time d with year in 2000..2063, the
\* years the 6-bit year field holds, decoding the 32-bit packing of d returns d.
C13_RoundTripTo2063 ==
    (PackedFromDate /\ request.year \in 2000..2063) =>
        (pc = "done" /\ attrs = [timestamp |-> request])

\* the last second of 2063 was packed and decoded
C13_Witness ==
    /\ PackedFromDate
    /\ request = Date(2063, 12, 31, 23, 59, 59)
    /\ attrs = [timestamp |-> request]

(***************************************************************************)
(* The payload codecs on their own: a date is encoded by dateToTimestamp   *)
(* and the 6 bytes are parsed as the payload of a SetTimeResponseFrame; a  *)
(* payload of any length is parsed by the parse_payload of a class.        *)
(***************************************************************************)
\* the years of the dates encoded: the ends of 2000..2255 and their neighbours
SetTimeYears == {1999, 2000, 2024, 2063, 2064, 2100, 2255, 2256}

\* the datetime objects handed to dateToTimestamp
SetTimeCodecDates ==
    {d \in {Date(y, mo, dd, h, mi, sec) :
                y \in SetTimeYears, mo \in {1, 2, 4, 12}, dd \in {1, 28, 29, 30, 31},
                h \in {0, 23}, mi \in {0, 59}, sec \in {0, 59}} :
        datetime(d.year, d.month, d.day, d.hour, d.minute, d.second).err = ""}

\* the payloads handed to parse_payload: every length, and those of the right size
PayloadInputs(c) ==
    {Pattern(n) : n \in 0..MaxPayloadLen} \cup GoodPayloads(c) \cup BadPayloads(c)

PayloadInit ==
    /\ \/ /\ pc = "encode"
          /\ cls = "SetTimeResponseFrame"
          /\ request \in SetTimeCodecDates
          /\ payload = <<>>
       \/ /\ pc = "parse_payload"
          /\ cls \in ResponseClasses \ {"GetDataResponseFrame"}
          /\ request = <<>>
          /\ payload \in PayloadInputs(cls)
    /\ stream = <<>>
    /\ io = <<>>
    /\ raw = <<>>
    /\ opcode = 0
    /\ unk1 = 2
    /\ unk2 = 0
    /\ length = 0
    /\ attrs = NoAttrs
    /\ err = ""
    /\ reply = <<>>
    /\ calls = 0
    /\ now = 0
    /\ sent = <<>>

\* dateToTimestamp(date)
EncodeDate ==
    /\ pc = "encode"
    /\ LET ts == dateToTimestamp(request)
       IN  /\ payload' = ts.val
           /\ err' = ts.err
           /\ pc' = IF ts.err = "" THEN "parse_payload" ELSE "error"
    /\ UNCHANGED <<stream, io, cls, raw, opcode, unk1, unk2, length, attrs, request,
                   reply, calls, now, sent>>

\* frame.parse_payload() on a frame of class cls holding payload
ParsePayload ==
    /\ pc = "parse_payload"
    /\ LET p == parse_payload(cls, payload)
       IN  /\ attrs' = p.set
           /\ err' = p.err
           /\ pc' = IF p.err = "" THEN "done" ELSE "error"
    /\ UNCHANGED <<stream, io, cls, raw, opcode, unk1, unk2, length, payload, request,
                   reply, calls, now, sent>>

PayloadNext ==
    \/ EncodeDate
    \/ ParsePayload

SpecPayload == PayloadInit /\ [][PayloadNext]_vars

\* a date was handed to dateToTimestamp and the call, and the parse after it, ended
DateEncoded == pc \in {"done", "error"} /\ request # <<>> /\ cls = "SetTimeResponseFrame"

\* C14: for every calendar date and time d with year in 2000..2255, the 6 bytes
\* [second, minute, hour, day, month, year - 2000] that encode d, parsed as the
\* payload of a SetTime response, give d again; with a year outside 2000..2255
\* the encoding fails and wraps nothing.
C14_SetTimeRoundTrip ==
    DateEncoded =>
        IF request.year \in 2000..2255
        THEN /\ pc = "done"
             /\ payload = <<request.second, request.minute, request.hour,
                            request.day, request.month, request.year - 2000>>
             /\ attrs.date = request
        ELSE /\ pc = "error"
             /\ err = "struct.error"
             /\ payload = <<>>
             /\ attrs = NoAttrs

\* the last second of 2255 was encoded and parsed back
C14_Witness ==
    /\ DateEncoded
    /\ request = Date(2255, 12, 31, 23, 59, 59)
    /\ attrs.date = request

\* the first second of 2256 was refused
C14_WitnessRefused ==
    /\ DateEncoded
    /\ request = Date(2256, 1, 1, 0, 0, 0)
    /\ pc = "error"

\* a payload was handed to parse_payload as it is and the call ended
PayloadParsed == pc \in {"done", "error"} /\ request = <<>> /\ cls \in GenericClasses

\* the size of the fixed layout of a class
LayoutSize(c) ==
    CASE c = "InterrogateResponseFrame" -> 17
      [] c = "SetTimeResponseFrame" -> 6
      [] OTHER -> 2

\* the fields of the layout of class c, read off a payload of the layout's size
LayoutFields(c, pl) ==
    CASE c = "InterrogateResponseFrame" ->
            [deviceId |-> <<pl[2] * 256 + pl[3], pl[4] * 256 + pl[5],
                            pl[6] * 256 + pl[7], pl[8] * 256 + pl[9]>>,
             firmwareVersion |-> SubSeq(pl, 10, 17)]
      [] c = "SetTimeResponseFrame" ->
            [second |-> pl[1], minute |-> pl[2], hour |-> pl[3], day |-> pl[4],
             month |-> pl[5], year |-> pl[6] + 2000]
      [] OTHER -> [param |-> pl[1], param_value |-> pl[2]]

\* the parse succeeded and assigned the fields of the layout
YieldsFields ==
    /\ pc = "done"
    /\ err = ""
    /\ \A name \in DOMAIN LayoutFields(cls, payload) :
          /\ name \in DOMAIN attrs
          /\ attrs[name] = LayoutFields(cls, payload)[name]

\* the parse failed on the size of the payload (struct.error, the program's
\* MalformedPayload) and assigned nothing
FailsOnSize == pc = "error" /\ err = "struct.error" /\ attrs = NoAttrs

\* C15 as stated: the parse of an Interrogate (17 bytes), SetTime (6 bytes),
\* GetParam or SetParam (2 bytes) response yields the fields of the layout when
\* the payload has exactly the layout's size and fails on every other length.
C15_FixedLayouts ==
    PayloadParsed =>
        IF Len(payload) = LayoutSize(cls) THEN YieldsFields ELSE FailsOnSize

\* C15, amended: as stated, except that the 6 bytes of a SetTime response must
\* also be a calendar date and time: when they are, the parse yields them and the
\* date; when they are not, it fails with the error of the timestamp decoding.
C15_FixedLayoutsCalendar ==
    PayloadParsed =>
        IF Len(payload) # LayoutSize(cls) THEN FailsOnSize
        ELSE IF cls # "SetTimeResponseFrame" THEN YieldsFields
        ELSE IF ValidCalendar(LayoutFields(cls, payload))
        THEN YieldsFields /\ attrs.date = Date(attrs.year, attrs.month, attrs.day,
                                               attrs.hour, attrs.minute, attrs.second)
        ELSE pc = "error" /\ err = "ValueError"

\* the Interrogate payload of the scenario was parsed to its fields
C15_Witness ==
    /\ PayloadParsed
    /\ cls = "InterrogateResponseFrame"
    /\ payload = InterrogatePayload
    /\ attrs.deviceId = <<43707, 52445, 61183, 17>>
    /\ attrs.firmwareVersion = <<86, 49, 46, 48, 48, 0, 0, 0>>

\* a payload one byte longer than the Interrogate layout was refused
C15_WitnessLong ==
    /\ PayloadParsed
    /\ cls = "InterrogateResponseFrame"
    /\ Len(payload) = 18
    /\ pc = "error"

(***************************************************************************)
(* The codec over every flag byte and every value of the 3 reserved bits:  *)
(* a frame is built and its bytes are parsed by the generic Frame.         *)
(***************************************************************************)
\* the values of the 3 bits above the length
ReservedBits == 0..7

FlagFrames ==
    {Frame(1, u1, u2, pl) : u1 \in Byte, u2 \in ReservedBits,
                            pl \in {<<>>, Pattern(31)}}

FlagInit ==
    /\ request \in FlagFrames
    /\ pc = "build"
    /\ cls = "Frame"
    /\ stream = <<>>
    /\ io = <<>>
    /\ raw = <<>>
    /\ opcode = 0
    /\ unk1 = 2
    /\ unk2 = 0
    /\ length = 0
    /\ payload = <<>>
    /\ attrs = NoAttrs
    /\ err = ""
    /\ reply = <<>>
    /\ calls = 0
    /\ now = 0
    /\ sent = <<>>

FlagNext ==
    \/ CodecBuild
    \/ CodecDeliver
    \/ ReceiveHeader
    \/ ReceiveLength
    \/ ReceivePayload
    \/ ReceivePad
    \/ ReceiveCrc

SpecFlags == FlagInit /\ [][FlagNext]_vars

\* the bytes of build were parsed to the end, the payload being one the length
\* field can count
BuiltAndParsed ==
    /\ Finished
    /\ cls = "Frame"
    /\ Delivered = reply
    /\ Len(request.payload) <= 31

\* C16: the flag byte and the 3 reserved bits pass through: for every flag byte
\* 0..255 and every reserved value 0..7, parsing what build emitted returns the
\* same flag byte and reserved bits, and a flag byte other than 2 is accepted.
C16_FlagsPassThrough ==
    BuiltAndParsed =>
        /\ pc = "done"
        /\ err = ""
        /\ unk1 = request.unk1
        /\ unk2 = request.unk2

\* a frame with flag byte 255 and reserved bits 7 was built and parsed back
C16_Witness ==
    /\ BuiltAndParsed
    /\ pc = "done"
    /\ request.unk1 = 255
    /\ request.unk2 = 7
    /\ unk1 = 255
    /\ unk2 = 7
    /\ Len(payload) = 31

(***************************************************************************)
(* calculate_crc on its own: the checksum of a byte string is computed.    *)
(***************************************************************************)
CrcAlphabet == {0, 1, 128, 255}

\* "123456789", the string checksums are customarily quoted for
CheckString == <<49, 50, 51, 52, 53, 54, 55, 56, 57>>

\* every single byte, the short strings over CrcAlphabet, and the check string
CrcInputs ==
    {<<b>> : b \in Byte}
    \cup UNION {[1..n -> CrcAlphabet] : n \in 0..MaxCrcLen}
    \cup {CheckString}

CrcInit ==
    /\ payload \in CrcInputs
    /\ pc = "calculate_crc"
    /\ cls = "none"
    /\ request = <<>>
    /\ stream = <<>>
    /\ io = <<>>
    /\ raw = <<>>
    /\ opcode = 0
    /\ unk1 = 2
    /\ unk2 = 0
    /\ length = 0
    /\ attrs = NoAttrs
    /\ err = ""
    /\ reply = <<>>
    /\ calls = 0
    /\ now = 0
    /\ sent = <<>>

\* calculate_crc(payload)
ComputeCrc ==
    /\ pc = "calculate_crc"
    /\ attrs' = [crc |-> calculate_crc(payload)]
    /\ pc' = "done"
    /\ UNCHANGED <<stream, io, cls, raw, opcode, unk1, unk2, length, payload, err,
                   request, reply, calls, now, sent>>

CrcNext == ComputeCrc

SpecCrc == CrcInit /\ [][CrcNext]_vars

RECURSIVE ShiftXor(_, _)
\* k steps of the reflected division by the polynomial 0xA001: the register is
\* shifted right by one bit, and 0xA001 is xored in when the bit shifted out is 1
ShiftXor(register, k) ==
    IF k = 0 THEN register
    ELSE LET shifted == IF register % 2 = 1 THEN Xor(register \div 2, 40961)
                        ELSE register \div 2
         IN  IF shifted >= 0 THEN ShiftXor(shifted, k - 1) ELSE shifted

\* entry i of the table generated for the reflected polynomial 0xA001
GeneratedEntry(i) == ShiftXor(i, 8)

RECURSIVE BitwiseRegister(_, _)
\* the register after the first n bytes of data, started at 0xFFFF and updated
\* bit by bit, without a table
BitwiseRegister(data, n) ==
    IF n = 0 THEN 65535
    ELSE LET register == BitwiseRegister(data, n - 1)
             fed == Xor(register, data[n])
         IN  IF register >= 0 /\ fed >= 0 THEN ShiftXor(fed, 8) ELSE register

RECURSIVE TableRegister(_, _)
\* the register after the first n bytes of data, started at 0xFFFF and updated by
\* tmp = (register & 0xFF) xor byte, register = ((register >> 8) & 0xFF) xor
\* table[tmp], the table being the generated one
TableRegister(data, n) ==
    IF n = 0 THEN 65535
    ELSE LET register == TableRegister(data, n - 1)
             tmp == Xor(register % 256, data[n])
             entry == GeneratedEntry(tmp)
         IN  IF register >= 0 /\ entry >= 0
             THEN Xor((register \div 256) % 256, entry)
             ELSE register

CrcComputed == pc = "done" /\ DOMAIN attrs = {"crc"} /\ cls = "none"

\* C17: calculate_crc starts from the register 0xFFFF, updates it per byte by
\* tmp = (register & 0xFF) xor byte, register = ((register >> 8) & 0xFF) xor
\* table[tmp], and returns the 16-bit complement of the register; the 256-entry
\* table is the one generated for the reflected CRC-16 polynomial 0xA001, so the
\* result is the bit-by-bit CRC as well.
C17_CrcAlgorithm ==
    /\ \A i \in 0..255 : crc_map[i + 1] = GeneratedEntry(i)
    /\ CrcComputed =>
          /\ attrs.crc = 65535 - TableRegister(payload, Len(payload))
          /\ attrs.crc = 65535 - BitwiseRegister(payload, Len(payload))

\* the checksum of "123456789" was computed: 0xB4C8
C17_Witness ==
    /\ CrcComputed
    /\ payload = CheckString
    /\ attrs.crc = 46280

(***************************************************************************)
(* The position of the stream between exchanges.                           *)
(***************************************************************************)
\* the first call has returned a response: the stream held nothing before it, and
\* the device put the bytes of reply on it
FirstExchangeReturned == pc = "done" /\ calls = 1 /\ cls \in ResponseClasses

\* C18: after exchanges that each returned successfully the bytes consumed from
\* the stream are exactly the bytes of the response frames, each through its 2
\* checksum bytes, GetData included: nothing of a frame received is left on the
\* stream for the next receive.
C18_StreamAtNextFrame ==
    FirstExchangeReturned =>
        /\ ReadBytes(io) = reply
        /\ stream = <<>>

(***************************************************************************)
(* The shortest records of a GetData response.                             *)
(***************************************************************************)
\* the last read of the log is the read of a record of length byte L
RecordRead(L) ==
    /\ cls = "GetDataResponseFrame"
    /\ io # <<>>
    /\ io[Len(io)].at = "record"
    /\ io[Len(io)].req = L

\* the bytes the last read delivered
LastRead == io[Len(io)].data

\* C19: in a GetData response a record length L with 1 <= L <= 4 ends the parse
\* with an error and no response; L = 5, followed by its 5 bytes with a calendar
\* timestamp, is accepted and gives a record with empty barcode data.
C19_ShortRecords ==
    /\ \A L \in 1..4 : RecordRead(L) => (pc = "error" /\ err = "struct.error")
    /\ (RecordRead(5) /\ Len(LastRead) = 5
           /\ ValidCalendar(FieldsOf(SubSeq(LastRead, 2, 5)))) =>
          /\ pc = "record"
          /\ err = ""
          /\ attrs.barcodes[Len(attrs.barcodes)] =
                 [symbology |-> LastRead[1], barcode |-> <<>>,
                  timestamp |-> FieldsOf(SubSeq(LastRead, 2, 5))]

\* a record of length 5 was accepted
C19_Witness ==
    /\ RecordRead(5)
    /\ pc = "record"
    /\ Len(attrs.barcodes) >= 1
    /\ attrs.barcodes[Len(attrs.barcodes)].barcode = <<>>

\* a record of length 3 with its 3 bytes on the stream was refused
C19_WitnessShort == RecordRead(3) /\ LastRead = <<9, 49, 50>> /\ pc = "error"

(***************************************************************************)
(* set_time with the clock running: calls with and without a date, seconds *)
(* passing between them.                                                   *)
(***************************************************************************)
ClockNext ==
    \/ Tick
    \/ set_time
    \/ ReceiveHeader
    \/ ReceiveLength
    \/ ReceivePayload
    \/ ReceivePad
    \/ ReceiveCrc

SpecClock == Init /\ [][ClockNext]_vars

\* the 6 payload bytes of a SetTime request frame
RequestDate(data) == SubSeq(data, 4, 9)

\* C20: set_time called without a date sends the datetime fixed when the class
\* was defined, not the time of the call: any two such calls, however far apart,
\* write the same bytes.
C20_DefaultDateFixed ==
    \A i \in DOMAIN sent :
        /\ RequestDate(sent[i].data) =
              <<DefinitionTime.second, DefinitionTime.minute, DefinitionTime.hour,
                DefinitionTime.day, DefinitionTime.month, DefinitionTime.year - 2000>>
        /\ \A j \in DOMAIN sent : sent[i].data = sent[j].data

\* set_time was called twice without a date, at different times, and the second
\* request is on the stream log
C20_Witness ==
    /\ Len(sent) = 2
    /\ sent[1].time # sent[2].time
    /\ sent[2].time = now
    /\ now > 0
    /\ Len(io) >= 1
    /\ io[1].op = "write"
    /\ io[1].data = sent[2].data

====
